---- MODULE Spec2Model ----
(***************************************************************************)
(* Model of app/processor.py: validate_input_message, compute_beta_signal  *)
(* and process_message, run by a caller that invokes process_message       *)
(* repeatedly on one raw message object.                                   *)
(*                                                                         *)
(* A Python dict is a TLA+ function from its keys to its values.  A Python *)
(* value is a record [type, val, items]: type is the Python type name, val *)
(* the literal of a scalar, items the contents of a dict.                  *)
(***************************************************************************)
EXTENDS Integers, Sequences, FiniteSets, TLC

VARIABLES
    raw_message,   \* contents of the caller's dict object passed to process_message
    raw0,          \* contents of that object before the first call
    schema_valid,  \* verdict of validate_message_schema on the raw message
    pc,            \* position of the control flow
    validated,     \* local of process_message (an alias of raw_message)
    beta_data,     \* local of process_message
    enriched,      \* local of process_message
    exc,           \* exception in flight or raised by the current call
    log,           \* records emitted to the logger by the current call
    calls,         \* number of calls of process_message begun
    outcomes       \* what each finished call handed to the caller

vars == <<raw_message, raw0, schema_valid, pc, validated, beta_data, enriched,
          exc, log, calls, outcomes>>

---------------------------------------------------------------------------
(* Bounds *)

MaxCalls == 2

MaxDataKeys == 2

---------------------------------------------------------------------------
(* Python values *)

EmptyDict == [k \in {} |-> ""]

Unset == EmptyDict

StrVal(s) == [type |-> "str", val |-> s, items |-> EmptyDict]

IntVal(s) == [type |-> "int", val |-> s, items |-> EmptyDict]

FloatVal(s) == [type |-> "float", val |-> s, items |-> EmptyDict]

NoneValue == [type |-> "NoneType", val |-> "None", items |-> EmptyDict]

Dict(f) == [type |-> "dict", val |-> "", items |-> f]

RequiredKeys == {"symbol", "timestamp", "data"}

TopKeys == RequiredKeys \cup {"source"}

DataKeys == {"price", "symbol", "timestamp", "beta_score"}

Symbols == {StrVal("AAPL"), StrVal("MSFT")}

Timestamps == {IntVal("1700000000"), IntVal("1700000060")}

DataScalars == {FloatVal("150.0"), StrVal("AAPL")}

DataDicts ==
    UNION {[K -> DataScalars] : K \in {S \in SUBSET DataKeys : Cardinality(S) <= MaxDataKeys}}

DataValues == {Dict(f) : f \in DataDicts} \cup {NoneValue, StrVal("n/a")}

Msg(K, s, t, d) ==
    [k \in K |-> CASE k = "symbol" -> s
                   [] k = "timestamp" -> t
                   [] k = "data" -> d
                   [] OTHER -> StrVal("queue")]

RawMessages ==
    {Msg(K, s, t, d) : K \in SUBSET TopKeys, s \in Symbols, t \in Timestamps, d \in DataValues}

---------------------------------------------------------------------------
(* Exceptions and log records *)

NoExc == [cls |-> "", msg |-> ""]

SchemaError == [cls |-> "ValueError", msg |-> "Invalid message format"]

MissingFieldError == [cls |-> "ValueError", msg |-> "Message is missing required keys"]

KeyError(k) == [cls |-> "KeyError", msg |-> k]

NotAMappingError(v) == [cls |-> "TypeError", msg |-> v.type]

LogRecord(level, text, payload) == [level |-> level, text |-> text, payload |-> payload]

EntryTrace == LogRecord("info", "Processing new message...", EmptyDict)

SchemaStartTrace == LogRecord("debug", "Validating message schema...", EmptyDict)

\* logger.warning in place of logger.error
SchemaInvalidTraceWarning(message) == LogRecord("warning", "Message schema invalid: %s", message)

SchemaInvalidTrace(message) == LogRecord("error", "Message schema invalid: %s", message)

MissingKeysTrace(message) == LogRecord("error", "Missing required keys in message: %s", message)

ComputeTrace(symbol) == LogRecord("debug", "Computing beta signal for %s", symbol)

FinalTrace(payload) == LogRecord("debug", "Final enriched message: %s", payload)

Returned(value) == [kind |-> "return", value |-> value, exc |-> NoExc]

Raised(e) == [kind |-> "raise", value |-> Unset, exc |-> e]

---------------------------------------------------------------------------
(* Pure parts of the three functions *)

\* all(k in message for k in ("symbol", "timestamp", "data")) with any() for all()
HasAnyRequiredKey(message) == RequiredKeys \cap DOMAIN message # {}

HasRequiredKeys(message) == RequiredKeys \subseteq DOMAIN message

beta_score == FloatVal("0.85")

\* the returned dict without its "timestamp" entry
BetaSignalNoTimestamp(message) ==
    [k \in {"symbol", "beta_score"} |->
        CASE k = "symbol" -> message["symbol"]
          [] OTHER -> beta_score]

BetaSignal(message) ==
    [k \in {"symbol", "timestamp", "beta_score"} |->
        CASE k = "symbol" -> message["symbol"]
          [] k = "timestamp" -> message["timestamp"]
          [] OTHER -> beta_score]

\* {**b, **a}: the entries of the first dict win
MergeDataFirstWins(a, b) ==
    [k \in (DOMAIN a) \cup (DOMAIN b) |-> IF k \in DOMAIN a THEN a[k] ELSE b[k]]

\* {**a, **b}
MergeData(a, b) ==
    [k \in (DOMAIN a) \cup (DOMAIN b) |-> IF k \in DOMAIN b THEN b[k] ELSE a[k]]

\* "timestamp": validated["symbol"]
EnrichedMessageSymbolTwice(message, beta) ==
    [k \in RequiredKeys |->
        CASE k = "symbol" -> message["symbol"]
          [] k = "timestamp" -> message["symbol"]
          [] OTHER -> Dict(MergeData(message["data"].items, beta))]

EnrichedMessage(message, beta) ==
    [k \in RequiredKeys |->
        CASE k = "symbol" -> message["symbol"]
          [] k = "timestamp" -> message["timestamp"]
          [] OTHER -> Dict(MergeData(message["data"].items, beta))]

---------------------------------------------------------------------------
(* State machine *)

Init ==
    /\ raw_message \in RawMessages
    /\ raw0 = raw_message
    /\ schema_valid \in BOOLEAN
    /\ pc = "idle"
    /\ validated = Unset
    /\ beta_data = Unset
    /\ enriched = Unset
    /\ exc = NoExc
    /\ log = <<>>
    /\ calls = 0
    /\ outcomes = <<>>

\* the caller invokes process_message(raw_message); line 74 logs the entry
Call ==
    /\ pc \in {"idle", "returned", "raised"}
    /\ calls < MaxCalls
    /\ calls' = calls + 1
    /\ validated' = Unset
    /\ beta_data' = Unset
    /\ enriched' = Unset
    /\ exc' = NoExc
    /\ log' = <<EntryTrace>>
    /\ pc' = "validate_start"
    /\ UNCHANGED <<raw_message, raw0, schema_valid, outcomes>>

\* validate_input_message, line 26
ValidateStart ==
    /\ pc = "validate_start"
    /\ log' = Append(log, SchemaStartTrace)
    /\ pc' = "schema_check"
    /\ UNCHANGED <<raw_message, raw0, schema_valid, validated, beta_data, enriched,
                   exc, calls, outcomes>>

\* the schema test with its "not" dropped
SchemaCheckInverted ==
    /\ pc = "schema_check"
    /\ IF schema_valid
       THEN /\ log' = Append(log, SchemaInvalidTrace(raw_message))
            /\ exc' = SchemaError
            /\ pc' = "validator_raised"
       ELSE /\ pc' = "key_check"
            /\ UNCHANGED <<log, exc>>
    /\ UNCHANGED <<raw_message, raw0, schema_valid, validated, beta_data, enriched,
                   calls, outcomes>>

\* validate_input_message, lines 27-29
SchemaCheck ==
    /\ pc = "schema_check"
    /\ IF ~schema_valid
       THEN /\ log' = Append(log, SchemaInvalidTrace(raw_message))
            /\ exc' = SchemaError
            /\ pc' = "validator_raised"
       ELSE /\ pc' = "key_check"
            /\ UNCHANGED <<log, exc>>
    /\ UNCHANGED <<raw_message, raw0, schema_valid, validated, beta_data, enriched,
                   calls, outcomes>>

\* validate_input_message, lines 31-35
KeyCheck ==
    /\ pc = "key_check"
    /\ IF ~HasRequiredKeys(raw_message)
       THEN /\ log' = Append(log, MissingKeysTrace(raw_message))
            /\ exc' = MissingFieldError
            /\ pc' = "validator_raised"
            /\ UNCHANGED validated
       ELSE /\ validated' = raw_message
            /\ pc' = "compute"
            /\ UNCHANGED <<log, exc>>
    /\ UNCHANGED <<raw_message, raw0, schema_valid, beta_data, enriched, calls, outcomes>>

\* process_message wrapping line 75 in try/except and returning the payload
PropagateCaught ==
    /\ pc = "validator_raised"
    /\ pc' = "returned"
    /\ enriched' = raw_message
    /\ outcomes' = Append(outcomes, Returned(raw_message))
    /\ UNCHANGED <<raw_message, raw0, schema_valid, validated, beta_data, exc, log, calls>>

\* process_message, line 75: no handler, the exception leaves process_message
Propagate ==
    /\ pc = "validator_raised"
    /\ pc' = "raised"
    /\ outcomes' = Append(outcomes, Raised(exc))
    /\ UNCHANGED <<raw_message, raw0, schema_valid, validated, beta_data, enriched,
                   exc, log, calls>>

\* compute_beta_signal, lines 51-61, called at line 76
ComputeBeta ==
    /\ pc = "compute"
    /\ IF "symbol" \notin DOMAIN validated
       THEN /\ exc' = KeyError("symbol")
            /\ pc' = "raised"
            /\ outcomes' = Append(outcomes, Raised(KeyError("symbol")))
            /\ UNCHANGED <<log, beta_data>>
       ELSE /\ log' = Append(log, ComputeTrace(validated["symbol"]))
            /\ IF "timestamp" \notin DOMAIN validated
               THEN /\ exc' = KeyError("timestamp")
                    /\ pc' = "raised"
                    /\ outcomes' = Append(outcomes, Raised(KeyError("timestamp")))
                    /\ UNCHANGED beta_data
               ELSE /\ beta_data' = BetaSignal(validated)
                    /\ pc' = "enrich"
                    /\ UNCHANGED <<exc, outcomes>>
    /\ UNCHANGED <<raw_message, raw0, schema_valid, validated, enriched, calls>>

\* the exception, if any, that evaluating the dict display of lines 78-82 raises
EnrichFailure(message) ==
    IF "symbol" \notin DOMAIN message THEN KeyError("symbol")
    ELSE IF "timestamp" \notin DOMAIN message THEN KeyError("timestamp")
    ELSE IF "data" \notin DOMAIN message THEN KeyError("data")
    ELSE IF message["data"].type # "dict" THEN NotAMappingError(message["data"])
    ELSE NoExc

\* lines 78-84 with validated.pop("data") in place of validated["data"]
EnrichPop ==
    /\ pc = "enrich"
    /\ IF EnrichFailure(validated) # NoExc
       THEN /\ exc' = EnrichFailure(validated)
            /\ pc' = "raised"
            /\ outcomes' = Append(outcomes, Raised(EnrichFailure(validated)))
            /\ UNCHANGED <<enriched, log, raw_message, validated>>
       ELSE /\ enriched' = EnrichedMessage(validated, beta_data)
            /\ log' = Append(log, FinalTrace(EnrichedMessage(validated, beta_data)))
            /\ pc' = "returned"
            /\ outcomes' = Append(outcomes, Returned(EnrichedMessage(validated, beta_data)))
            /\ raw_message' = [k \in DOMAIN raw_message \ {"data"} |-> raw_message[k]]
            /\ validated' = raw_message'
            /\ UNCHANGED exc
    /\ UNCHANGED <<raw0, schema_valid, beta_data, calls>>

\* lines 78-84 with validated["data"].update(beta_data) in place of the new dict
EnrichInPlace ==
    /\ pc = "enrich"
    /\ IF EnrichFailure(validated) # NoExc
       THEN /\ exc' = EnrichFailure(validated)
            /\ pc' = "raised"
            /\ outcomes' = Append(outcomes, Raised(EnrichFailure(validated)))
            /\ UNCHANGED <<enriched, log, raw_message, validated>>
       ELSE /\ enriched' = EnrichedMessage(validated, beta_data)
            /\ log' = Append(log, FinalTrace(EnrichedMessage(validated, beta_data)))
            /\ pc' = "returned"
            /\ outcomes' = Append(outcomes, Returned(EnrichedMessage(validated, beta_data)))
            /\ raw_message' = [raw_message EXCEPT
                   !["data"] = Dict(MergeData(raw_message["data"].items, beta_data))]
            /\ validated' = raw_message'
            /\ UNCHANGED exc
    /\ UNCHANGED <<raw0, schema_valid, beta_data, calls>>

\* process_message, lines 78-84
Enrich ==
    /\ pc = "enrich"
    /\ IF EnrichFailure(validated) # NoExc
       THEN /\ exc' = EnrichFailure(validated)
            /\ pc' = "raised"
            /\ outcomes' = Append(outcomes, Raised(EnrichFailure(validated)))
            /\ UNCHANGED <<enriched, log>>
       ELSE /\ enriched' = EnrichedMessage(validated, beta_data)
            /\ log' = Append(log, FinalTrace(EnrichedMessage(validated, beta_data)))
            /\ pc' = "returned"
            /\ outcomes' = Append(outcomes, Returned(EnrichedMessage(validated, beta_data)))
            /\ UNCHANGED exc
    /\ UNCHANGED <<raw_message, raw0, schema_valid, validated, beta_data, calls>>

Next ==
    \/ Call
    \/ ValidateStart
    \/ SchemaCheck
    \/ KeyCheck
    \/ Propagate
    \/ ComputeBeta
    \/ Enrich

Spec == Init /\ [][Next]_vars

TypeOK ==
    /\ pc \in {"idle", "validate_start", "schema_check", "key_check", "validator_raised",
               "compute", "enrich", "returned", "raised"}
    /\ schema_valid \in BOOLEAN
    /\ calls \in 0..MaxCalls
    /\ Len(outcomes) <= calls

---------------------------------------------------------------------------
(* Vocabulary of the properties *)

Finished == pc \in {"returned", "raised"}

LastOutcome == outcomes[Len(outcomes)]

LacksRequiredKey == ~({"symbol", "timestamp", "data"} \subseteq DOMAIN raw0)

PassesValidator == schema_valid /\ ~LacksRequiredKey

SignalKeys == {"symbol", "timestamp", "beta_score"}

RawData == raw0["data"].items

ExpectedSignal ==
    [k \in SignalKeys |->
        CASE k = "symbol" -> raw0["symbol"]
          [] k = "timestamp" -> raw0["timestamp"]
          [] OTHER -> [type |-> "float", val |-> "0.85", items |-> EmptyDict]]

ExpectedData ==
    [k \in (DOMAIN RawData) \cup SignalKeys |->
        IF k \in SignalKeys THEN ExpectedSignal[k] ELSE RawData[k]]

HasOutput == pc = "returned" /\ "data" \in DOMAIN enriched /\ "data" \in DOMAIN raw0

---------------------------------------------------------------------------
(* C1 *)

---------------------------------------------------------------------------
(* C2 *)

\* C2: a message that fails the schema check makes process_message raise the
\* schema error whether or not the required keys are present; the key check is
\* reached only after the schema check passed, so a message failing both
\* checks yields the schema error and no missing-keys error or trace.
C2_SchemaErrorFirst ==
    /\ pc = "key_check" => schema_valid
    /\ (Finished /\ ~schema_valid) =>
        /\ pc = "raised"
        /\ LastOutcome.kind = "raise"
        /\ LastOutcome.exc = [cls |-> "ValueError", msg |-> "Invalid message format"]
        /\ LastOutcome.exc # MissingFieldError
        /\ \A i \in DOMAIN log : log[i].text # "Missing required keys in message: %s"

C2_Witness ==
    /\ pc = "raised"
    /\ ~schema_valid
    /\ LacksRequiredKey
    /\ LastOutcome.exc = SchemaError

---------------------------------------------------------------------------
(* C3 *)

\* C3 (as stated): the keys of the output data are the keys of raw["data"]
\* plus exactly one added key, beta_score.
C3_OnlyBetaScoreAdded ==
    HasOutput =>
        DOMAIN enriched["data"].items = (DOMAIN RawData) \cup {"beta_score"}

\* C3 (amended): the keys of the output data are the keys of raw["data"]
\* together with the three keys symbol, timestamp and beta_score: every key of
\* raw["data"] is present and no key outside those three is added.
C3_SignalKeysAdded ==
    HasOutput =>
        /\ DOMAIN RawData \subseteq DOMAIN enriched["data"].items
        /\ (DOMAIN enriched["data"].items) \ (DOMAIN RawData) \subseteq SignalKeys
        /\ DOMAIN enriched["data"].items = (DOMAIN RawData) \cup SignalKeys

C3_Witness ==
    /\ HasOutput
    /\ DOMAIN RawData = {"price"}
    /\ DOMAIN enriched["data"].items = {"price", "symbol", "timestamp", "beta_score"}

---------------------------------------------------------------------------
(* C4 *)

\* C4: the output data is the shallow union of raw["data"] and the signal
\* result {symbol: raw.symbol, timestamp: raw.timestamp, beta_score: 0.85};
\* on a key present in both the signal result's value is kept, and every other
\* entry of raw["data"] keeps its value.
C4_DataIsUnionSignalWins ==
    HasOutput =>
        /\ beta_data = ExpectedSignal
        /\ enriched["data"].type = "dict"
        /\ enriched["data"].items = ExpectedData
        /\ LastOutcome.value["data"].items = ExpectedData

C4_Witness ==
    /\ HasOutput
    /\ DOMAIN RawData = {"price", "symbol"}
    /\ RawData["symbol"] # raw0["symbol"]
    /\ enriched["data"].items["symbol"] = raw0["symbol"]
    /\ enriched["data"].items["price"] = RawData["price"]

---------------------------------------------------------------------------
(* C5 *)

\* C5: the top-level symbol and timestamp of the output equal those of the
\* input, whatever raw["data"] contains.
C5_SymbolTimestampCopied ==
    HasOutput =>
        /\ enriched["symbol"] = raw0["symbol"]
        /\ enriched["timestamp"] = raw0["timestamp"]
        /\ LastOutcome.value["symbol"] = raw0["symbol"]
        /\ LastOutcome.value["timestamp"] = raw0["timestamp"]

C5_Witness ==
    /\ HasOutput
    /\ DOMAIN RawData = {"symbol", "timestamp"}
    /\ RawData["symbol"] # raw0["symbol"]
    /\ RawData["timestamp"] # raw0["timestamp"]
    /\ enriched["symbol"] = raw0["symbol"]

---------------------------------------------------------------------------
(* C6 *)

\* C6: every message that passes both validator checks makes process_message
\* return an enriched message, also when its data value is not a mapping; the
\* schema error and the missing-field error are the only error outcomes.
C6_OnlyValidatorErrors ==
    Finished =>
        /\ PassesValidator => pc = "returned"
        /\ pc = "raised" => exc \in {SchemaError, MissingFieldError}

---------------------------------------------------------------------------
(* C7 *)

\* C7: repeated calls of process_message on the same valid raw message yield
\* identical outputs: every later call returns what the first call returned.
C7_RepeatedCallsAgree ==
    \A i \in DOMAIN outcomes :
        outcomes[1].kind = "return" => outcomes[i] = outcomes[1]

C7_Witness ==
    /\ Len(outcomes) >= 2
    /\ outcomes[1].kind = "return"
    /\ outcomes[2].kind = "return"
    /\ outcomes[2].value = outcomes[1].value

---------------------------------------------------------------------------
(* C8 *)

\* C8: when the validator fails, its exception reaches the caller unchanged
\* and nothing else is produced: the signal computer is not invoked, no
\* enriched message is built or returned, and validation is not retried.
C8_ValidatorErrorPropagates ==
    (Finished /\ (~schema_valid \/ LacksRequiredKey)) =>
        /\ pc = "raised"
        /\ exc \in {SchemaError, MissingFieldError}
        /\ LastOutcome = [kind |-> "raise", value |-> Unset, exc |-> exc]
        /\ beta_data = Unset
        /\ enriched = Unset
        /\ \A i \in DOMAIN log : log[i].text # "Computing beta signal for %s"
        /\ Cardinality({i \in DOMAIN log : log[i].text = "Validating message schema..."}) = 1
        /\ Len(outcomes) = calls

C8_Witness ==
    /\ pc = "raised"
    /\ calls = 1
    /\ outcomes = <<Raised(exc)>>
    /\ exc = SchemaError
    /\ beta_data = Unset

---------------------------------------------------------------------------
(* C9 *)

\* C9: the raw message is never modified: at every point of every call, and
\* after the call returned or raised, the raw message and its data mapping
\* hold the keys and values they held before; the validated message is the
\* mapping that was given, and the signal result is made of the message's
\* symbol and timestamp only.
C9_RawMessageUnchanged ==
    /\ raw_message = raw0
    /\ validated # Unset => validated = raw0
    /\ beta_data # Unset => beta_data = ExpectedSignal
    /\ HasOutput => (DOMAIN raw_message["data"].items = DOMAIN RawData)

C9_Witness ==
    /\ HasOutput
    /\ calls = 2
    /\ DOMAIN raw_message["data"].items = {"price"}
    /\ "beta_score" \in DOMAIN enriched["data"].items

---------------------------------------------------------------------------
(* C10 *)

ValidatorFailed == pc = "validator_raised" \/ (pc = "raised" /\ exc.cls = "ValueError")

\* C10: the traces of a call come in a fixed order: the info-level entry
\* trace first, the debug-level schema-check-start trace second and before the
\* schema check; on a validator failure exactly one error-level trace carrying
\* the payload, last, and no compute or final trace; on success no error
\* trace, then the compute trace, then the debug-level final trace, last.
C10_TraceOrder ==
    /\ calls > 0 =>
        /\ Len(log) >= 1
        /\ log[1].level = "info"
        /\ log[1].text = "Processing new message..."
    /\ pc = "validate_start" => Len(log) = 1
    /\ pc \notin {"idle", "validate_start"} =>
        /\ Len(log) >= 2
        /\ log[2].level = "debug"
        /\ log[2].text = "Validating message schema..."
    /\ pc \in {"schema_check", "key_check"} => Len(log) = 2
    /\ ValidatorFailed =>
        /\ Len(log) = 3
        /\ log[3].level = "error"
        /\ log[3].payload = raw0
        /\ log[3].text = (IF exc.msg = "Invalid message format"
                          THEN "Message schema invalid: %s"
                          ELSE "Missing required keys in message: %s")
    /\ pc = "returned" =>
        /\ Len(log) = 4
        /\ \A i \in DOMAIN log : log[i].level # "error"
        /\ log[3].level = "debug"
        /\ log[3].text = "Computing beta signal for %s"
        /\ log[3].payload = raw0["symbol"]
        /\ log[4].level = "debug"
        /\ log[4].text = "Final enriched message: %s"
        /\ log[4].payload = enriched

C10_Witness ==
    /\ pc = "returned"
    /\ Len(log) = 4
    /\ log[4] = FinalTrace(enriched)
    /\ log[3] = ComputeTrace(raw0["symbol"])
====
